---- MODULE Spec2Model ----
(***************************************************************************)
(* Model of the useUser / useEnv hooks (src/useUser.js, src/useEnv.js).    *)
(*                                                                         *)
(* Every mounted useUser() instance owns five useState slots (usuario,     *)
(* persona, tipoUsuarioId, logged, token).  A setter call does not change  *)
(* the slot the running closure sees: it queues an update that React       *)
(* commits at the next render of that instance.  localStorage is shared    *)
(* by all instances and is written immediately.                            *)
(*                                                                         *)
(* JavaScript values are tagged records, so that the number 7 and the      *)
(* string "7" are different values:                                        *)
(*   Num(n)  the number n            Str(n)  the decimal string of n       *)
(*   Tok(s)  the token string s      Txt(s)  any other string              *)
(*   Obj(f)  an object with fields f Json(v) the text JSON.stringify(v)    *)
(*   Null, Undefined, JTrue, JFalse, NaN                                   *)
(***************************************************************************)
EXTENDS Integers, Sequences, FiniteSets, TLC

VARIABLES
  localStorage,  \* the browser's store: key -> string, Null for a missing key
  state,         \* instance -> the five slots as its current closure sees them
  pending,       \* instance -> the updates its setters queued for the next render
  now,           \* the clock, in milliseconds
  TEST,          \* the TEST flag useEnv() returns
  env,           \* import.meta.env: the DEV flag and the VITE_ strings
  hook,          \* useEnv: the useMemo cell of each consumer, the objects
                 \* allocated so far and the objects returned so far
  last           \* the last step taken: the call, its arguments and its result

vars == <<localStorage, state, pending, now, TEST, env, hook, last>>

\* what no useUser operation touches: the environment and the useEnv hook
entorno == <<TEST, env, hook>>

(* ----------------------------- bounds --------------------------------- *)

\* the clock advances at most this many seconds
MaxTicks == 2

\* useEnv allocates at most this many objects
MaxObjects == 6

\* verificarToken: new Date(decoded.exp * 1000)
MsPerSec == 1000
\* parseInt(currentTipoUsuarioId, 10)
Radix == 10

\* the mounted useUser() instances
Instances == DOMAIN state

(* --------------------------- JS values -------------------------------- *)

Num(n) == [num |-> n]
Str(n) == [str |-> n]
Tok(s) == [tok |-> s]
Txt(s) == [txt |-> s]
Obj(f) == [obj |-> f]
Json(v) == [json |-> v]
Null == [null |-> TRUE]
Undefined == [undef |-> TRUE]
JTrue == [bool |-> TRUE]
JFalse == [bool |-> FALSE]
NaN == [nan |-> TRUE]
\* a useState slot for which the closure has queued no update
NoUpd == [noupd |-> TRUE]

IsObj(v) == DOMAIN v = {"obj"}
IsNum(v) == DOMAIN v = {"num"}
IsStr(v) == DOMAIN v \in {{"str"}, {"tok"}, {"txt"}, {"json"}}

\* typeof v
TypeOf(v) ==
  IF IsObj(v) \/ v = Null THEN "object"
  ELSE IF IsNum(v) \/ v = NaN THEN "number"
  ELSE IF IsStr(v) THEN "string"
  ELSE IF v \in {JTrue, JFalse} THEN "boolean"
  ELSE "undefined"

\* ToBoolean(v): what `v ? a : b`, `!v`, `a && b` and `a || b` test
Truthy(v) == v \notin {Null, Undefined, JFalse, NaN, Num(0), Txt("")}

\* String(v): what localStorage.setItem stores for v
StringOf(v) ==
  IF IsNum(v) THEN Str(v.num)
  ELSE IF IsStr(v) THEN v
  ELSE IF v = Null THEN Txt("null")
  ELSE IF v = Undefined THEN Txt("undefined")
  ELSE IF v = JTrue THEN Txt("true")
  ELSE IF v = JFalse THEN Txt("false")
  ELSE IF v = NaN THEN Txt("NaN")
  ELSE Txt("[object Object]")

\* parseInt(v, 10) on what localStorage.getItem returned
parseInt(v, radix) ==
  IF DOMAIN v = {"str"} /\ radix = 10 THEN Num(v.str) ELSE NaN

\* Array.prototype.includes
includes(lista, v) == \E j \in 1..Len(lista) : Num(lista[j]) = v

\* v.k for an object v: undefined when the field is missing
Prop(v, k) == IF IsObj(v) /\ k \in DOMAIN v.obj THEN v.obj[k] ELSE Undefined

\* { ...v } followed by delete copy.k
Without(v, k) == Obj([f \in (DOMAIN v.obj) \ {k} |-> v.obj[f]])

\* JSON.parse(s): succeeds on the texts JSON.stringify produced
ParseOk(s) == DOMAIN s = {"json"}
JSONparse(s) == s.json
JSONstringify(v) == Json(v)

(* ------------------------ tokens and arguments ------------------------ *)

\* the user record carried in the data section of token "tkNum"
DatosNum ==
  Obj([tipo_usuario_id |-> Num(7), nombre |-> Txt("A"),
       persona |-> Obj([nombre |-> Txt("P")])])
\* the user record of token "tkStr": the id is a string, there is no persona
DatosStr == Obj([tipo_usuario_id |-> Str(2), nombre |-> Txt("B")])

\* the token strings handed to login
Tokens == {"tkBad", "tkNoData", "tkNum", "tkStr"}

\* jwtDecode(token): the claims, or thrown = TRUE on a malformed token
jwtDecode(t) ==
  CASE t = "tkNum" -> [thrown |-> FALSE, exp |-> Num(1), data |-> DatosNum]
    [] t = "tkStr" -> [thrown |-> FALSE, exp |-> Num(2), data |-> DatosStr]
    [] t = "tkNoData" -> [thrown |-> FALSE, exp |-> Num(1), data |-> Undefined]
    [] OTHER -> [thrown |-> TRUE, exp |-> Undefined, data |-> Undefined]

\* the second argument of login: a record, a string, null, undefined, a number
UserArgs == {Obj([nombre |-> Txt("A")]), Txt("not-an-object"), Null, Undefined, Num(5)}

\* the allow-lists handed to checkLogged
Listas == {<< >>, <<7>>, <<1, 2, 3>>}

(* --------------------------- localStorage ----------------------------- *)

BASENAME == "app"
KeyToken == "app_token"
KeyTipo == "app_tipo_usuario_id"
KeyDatos == "app_datos"
\* a key some other part of the page keeps in the same localStorage
KeyOtra == "otra_clave"
Keys == {KeyToken, KeyTipo, KeyDatos, KeyOtra}

\* localStorage.getItem(k) is null for a missing key
getItem(ls, k) == ls[k]
\* localStorage.setItem(k, v) stores String(v)
setItem(ls, k, v) == [ls EXCEPT ![k] = StringOf(v)]
\* localStorage.clear()
clear == [k \in Keys |-> Null]

(* --------------------------- useState slots --------------------------- *)

Slots == {"usuario", "persona", "tipoUsuarioId", "logged", "token"}
\* useState(null) five times
InitialState == [s \in Slots |-> Null]
NoPending == [s \in Slots |-> NoUpd]
\* a setter call queues the value for the next render
set(up, slot, v) == [up EXCEPT ![slot] = v]
\* the render takes every queued update
Commit(st, up) == [s \in Slots |-> IF up[s] = NoUpd THEN st[s] ELSE up[s]]

(* ------------------------------ useUser ------------------------------- *)
(* The functions below take the store ls and the queued updates up and    *)
(* return both as the function leaves them, with its return value.        *)

\* mutant: on a parse error only the damaged entry is removed
getUsuarioFromStorage_soloDatos(ls) ==
  LET usuarioData == getItem(ls, KeyDatos) IN
  IF ~Truthy(usuarioData) THEN [ls |-> ls, ret |-> Null, caught |-> FALSE]
  ELSE IF ParseOk(usuarioData)
  THEN [ls |-> ls, ret |-> JSONparse(usuarioData), caught |-> FALSE]
  ELSE [ls |-> [ls EXCEPT ![KeyDatos] = Null], ret |-> Null, caught |-> TRUE]

\* caught tells that JSON.parse threw and the catch block ran
getUsuarioFromStorage(ls) ==
  LET usuarioData == getItem(ls, KeyDatos) IN
  IF ~Truthy(usuarioData) THEN [ls |-> ls, ret |-> Null, caught |-> FALSE]
  ELSE IF ParseOk(usuarioData)
  THEN [ls |-> ls, ret |-> JSONparse(usuarioData), caught |-> FALSE]
  ELSE [ls |-> clear, ret |-> Null, caught |-> TRUE]

getUser(usuarioParam, ls, up) ==
  LET r == getUsuarioFromStorage(ls)
      datos == IF Truthy(usuarioParam) THEN usuarioParam ELSE r.ret
      ls2 == IF Truthy(usuarioParam) THEN ls ELSE r.ls
  IN IF Truthy(datos)
     THEN [ls |-> ls2,
           up |-> set(set(up, "persona", Prop(datos, "persona")),
                      "usuario", Without(datos, "persona"))]
     ELSE [ls |-> ls2, up |-> set(set(up, "persona", Null), "usuario", Null)]

\* mutant: the argument is ignored and the id is always read from the store
getTipoUsuario_soloStorage(tipo_usuario_id, ls, up) ==
  [ls |-> ls, up |-> set(up, "tipoUsuarioId", getItem(ls, KeyTipo)),
   ret |-> getItem(ls, KeyTipo)]

getTipoUsuario(tipo_usuario_id, ls, up) ==
  LET tipoUsuarioIdLocal ==
        IF Truthy(tipo_usuario_id) THEN tipo_usuario_id ELSE getItem(ls, KeyTipo)
  IN [ls |-> ls, up |-> set(up, "tipoUsuarioId", tipoUsuarioIdLocal),
      ret |-> tipoUsuarioIdLocal]

\* mutant: only the three session keys are removed
logout_soloSesion(ls, up) ==
  [ls |-> [k \in Keys |-> IF k = KeyOtra THEN ls[k] ELSE Null],
   up |-> set(set(set(set(set(up, "persona", Null), "usuario", Null),
                      "tipoUsuarioId", Null), "token", Null), "logged", JFalse)]

\* mutant: logged is reset to null, the "not verified yet" value
logout_aDesconocido(ls, up) ==
  [ls |-> clear,
   up |-> set(set(set(set(set(up, "persona", Null), "usuario", Null),
                      "tipoUsuarioId", Null), "token", Null), "logged", Null)]

\* mutant: only the token entry is removed
logout_soloToken(ls, up) ==
  [ls |-> [ls EXCEPT ![KeyToken] = Null],
   up |-> set(set(set(set(set(up, "persona", Null), "usuario", Null),
                      "tipoUsuarioId", Null), "token", Null), "logged", JFalse)]

\* mutant: setToken(null) is missing
logout_sinToken(ls, up) ==
  [ls |-> clear,
   up |-> set(set(set(set(up, "persona", Null), "usuario", Null),
                  "tipoUsuarioId", Null), "logged", JFalse)]

\* mutant: setLogged(false) is missing
logout_sinLogged(ls, up) ==
  [ls |-> clear,
   up |-> set(set(set(set(up, "persona", Null), "usuario", Null),
                  "tipoUsuarioId", Null), "token", Null)]

logout(ls, up) ==
  [ls |-> clear,
   up |-> set(set(set(set(set(up, "persona", Null), "usuario", Null),
                      "tipoUsuarioId", Null), "token", Null), "logged", JFalse)]

\* mutant: the null test of the guard is missing (typeof null is "object")
usuarioInvalido_sinNull(usuario) == TypeOf(usuario) # "object"

\* the guard of login: usuario is not a non-null object
usuarioInvalido(usuario) == TypeOf(usuario) # "object" \/ usuario = Null

\* mutant: the catch block resets the slots but leaves the store alone
loginCatch_soloEstado(ls, up) == [ls |-> ls, up |-> logout(ls, up).up]

\* the catch block of login
loginCatch(ls, up) == logout(ls, up)

\* login: outcome is "rejected" (invalid usuario), "ok", or "failed" when
\* the try block threw (jwtDecode threw, or decoded.data is undefined or null
\* so that reading decoded.data.tipo_usuario_id threw)
login(tok, usuario, ls, up) ==
  IF usuarioInvalido(usuario)
  THEN [ls |-> ls, up |-> up, outcome |-> "rejected"]
  ELSE
    LET decoded == jwtDecode(tok) IN
    IF decoded.thrown \/ decoded.data \in {Null, Undefined}
    THEN LET o == loginCatch(ls, up) IN [ls |-> o.ls, up |-> o.up, outcome |-> "failed"]
    ELSE
      LET tipoUsuarioId == Prop(decoded.data, "tipo_usuario_id")
          usuarioData == IF Truthy(decoded.data) THEN decoded.data ELSE usuario
          ls1 == setItem(ls, KeyToken, Tok(tok))
          ls2 == setItem(ls1, KeyTipo, tipoUsuarioId)
          ls3 == setItem(ls2, KeyDatos, JSONstringify(usuarioData))
          up1 == set(set(up, "token", Tok(tok)), "logged", JTrue)
          g == getUser(usuarioData, ls3, up1)
          t == getTipoUsuario(tipoUsuarioId, g.ls, g.up)
      IN [ls |-> t.ls, up |-> t.up, outcome |-> "ok"]

\* mutant: the user-type id is not required
datosCompletos_sinTipo(token, tipoUsuarioId, usuarioData) ==
  Truthy(token) /\ Truthy(usuarioData)

\* token && tipoUsuarioId && usuarioData
datosCompletos(token, tipoUsuarioId, usuarioData) ==
  Truthy(token) /\ Truthy(tipoUsuarioId) /\ Truthy(usuarioData)

getLocalData(ls, up) ==
  LET token == getItem(ls, KeyToken)
      tipoUsuarioId == getItem(ls, KeyTipo)
      r == getUsuarioFromStorage(ls)
      usuarioData == r.ret
  IN IF datosCompletos(token, tipoUsuarioId, usuarioData)
     THEN LET g == getUser(usuarioData, r.ls, up)
              t == getTipoUsuario(tipoUsuarioId, g.ls, g.up)
          IN [ls |-> t.ls,
              up |-> set(set(t.up, "token", token), "logged", JTrue),
              ret |-> token, caught |-> r.caught]
     ELSE [ls |-> r.ls,
           up |-> set(set(set(set(set(up, "usuario", Null), "persona", Null),
                              "tipoUsuarioId", Null), "token", Null),
                      "logged", JFalse),
           ret |-> Null, caught |-> r.caught]

\* mutant: a token whose exp equals now counts as expired
NotExpired_estricto(exp, today) == IsNum(exp) /\ exp.num * MsPerSec > today

\* exp >= today for exp = new Date(decoded.exp * 1000); an Invalid Date
\* (no numeric exp) compares false
NotExpired(exp, today) == IsNum(exp) /\ exp.num * MsPerSec >= today

\* verificarToken reads logged and token of the closure: the committed state st
verificarToken(st, today) ==
  IF st.logged = Null \/ ~Truthy(st.token) THEN FALSE
  ELSE LET decoded == jwtDecode(st.token.tok) IN
       IF decoded.thrown THEN FALSE ELSE NotExpired(decoded.exp, today)

\* mutant: the allow-list is not consulted
tipoPermitido_siempre(tiposUsuariosId, currentTipoUsuarioId) == TRUE

\* the user-type test of checkLogged, once the token has been verified
tipoPermitido(tiposUsuariosId, currentTipoUsuarioId) ==
  IF Len(tiposUsuariosId) > 0
  THEN includes(tiposUsuariosId, parseInt(currentTipoUsuarioId, Radix))
  ELSE TRUE

\* mutant: a user type outside the allow-list logs the user out
checkLoggedSinTest_logoutSiTipo(tiposUsuariosId, st, today, ls, up) ==
  LET token == getItem(ls, KeyToken)
      o == logout(ls, up)
  IN IF ~Truthy(token)
     THEN [ls |-> o.ls, up |-> o.up, ret |-> FALSE, path |-> "logout"]
     ELSE IF verificarToken(st, today)
             /\ tipoPermitido(tiposUsuariosId, getItem(ls, KeyTipo))
     THEN [ls |-> ls, up |-> up, ret |-> TRUE, path |-> "checked"]
     ELSE [ls |-> o.ls, up |-> o.up, ret |-> FALSE, path |-> "logout"]

\* mutant: the expiry check is made on the token read from the store
checkLoggedSinTest_tokenDeStorage(tiposUsuariosId, st, today, ls, up) ==
  LET token == getItem(ls, KeyToken)
      o == logout(ls, up)
  IN IF ~Truthy(token)
     THEN [ls |-> o.ls, up |-> o.up, ret |-> FALSE, path |-> "logout"]
     ELSE IF verificarToken([st EXCEPT !.token = token, !.logged = JTrue], today)
     THEN [ls |-> ls, up |-> up,
           ret |-> tipoPermitido(tiposUsuariosId, getItem(ls, KeyTipo)),
           path |-> "checked"]
     ELSE [ls |-> o.ls, up |-> o.up, ret |-> FALSE, path |-> "logout"]

\* mutant: a failed expiry check returns false without logging out
checkLoggedSinTest_sinLogout(tiposUsuariosId, st, today, ls, up) ==
  LET token == getItem(ls, KeyToken)
      o == logout(ls, up)
  IN IF ~Truthy(token)
     THEN [ls |-> o.ls, up |-> o.up, ret |-> FALSE, path |-> "logout"]
     ELSE IF verificarToken(st, today)
     THEN [ls |-> ls, up |-> up,
           ret |-> tipoPermitido(tiposUsuariosId, getItem(ls, KeyTipo)),
           path |-> "checked"]
     ELSE [ls |-> ls, up |-> up, ret |-> FALSE, path |-> "checked"]

\* checkLogged after its TEST line.  path tells which return was taken:
\* "logout" for the two that call logout(), "checked" for the other two
checkLoggedSinTest(tiposUsuariosId, st, today, ls, up) ==
  LET token == getItem(ls, KeyToken)
      o == logout(ls, up)
  IN IF ~Truthy(token)
     THEN [ls |-> o.ls, up |-> o.up, ret |-> FALSE, path |-> "logout"]
     ELSE IF verificarToken(st, today)
     THEN [ls |-> ls, up |-> up,
           ret |-> tipoPermitido(tiposUsuariosId, getItem(ls, KeyTipo)),
           path |-> "checked"]
     ELSE [ls |-> o.ls, up |-> o.up, ret |-> FALSE, path |-> "logout"]

\* mutant: the TEST flag is not looked at
checkLogged_ignoraTest(tiposUsuariosId, test, st, today, ls, up) ==
  checkLoggedSinTest(tiposUsuariosId, st, today, ls, up)

checkLogged(tiposUsuariosId, test, st, today, ls, up) ==
  IF test THEN [ls |-> ls, up |-> up, ret |-> TRUE, path |-> "test"]
  ELSE checkLoggedSinTest(tiposUsuariosId, st, today, ls, up)

(* ------------------------------- useEnv ------------------------------- *)

\* String.prototype.toLowerCase on the strings of the model
toLowerCase(s) ==
  CASE s = Txt("True") -> Txt("true")
    [] s = Txt("TRUE") -> Txt("true")
    [] OTHER -> s

\* mutant: the development flag is not looked at
envVars_sinDev(e) ==
  [BASENAME |-> e.VITE_BASENAME,
   TEST |-> toLowerCase(IF Truthy(e.VITE_TEST) THEN e.VITE_TEST ELSE Txt(""))
              = Txt("true")]

\* the callback handed to useMemo: the record built from one of the two
\* namespaces (of its six fields the model keeps BASENAME and TEST)
envVars(e) ==
  IF e.DEV
  THEN [BASENAME |-> e.VITE_BASENAME_DEV,
        TEST |-> toLowerCase(IF Truthy(e.VITE_TEST_DEV) THEN e.VITE_TEST_DEV
                             ELSE Txt("")) = Txt("true")]
  ELSE [BASENAME |-> e.VITE_BASENAME,
        TEST |-> toLowerCase(IF Truthy(e.VITE_TEST) THEN e.VITE_TEST
                             ELSE Txt("")) = Txt("true")]

\* the components that call useEnv()
Consumers == {1, 2}

\* no consumer has rendered yet: empty useMemo cells, nothing allocated
InitialHook ==
  [memo |-> [c \in Consumers |-> 0], heap |-> << >>, returned |-> << >>]

\* useEnv() called by consumer c.  Objects are heap entries and a reference
\* is an index into heap.  useMemo runs its callback on the consumer's first
\* render only; the return statement builds a new object literal each time.
useEnv(c, e, h) ==
  LET first == h.memo[c] = 0
      heap1 == IF first THEN Append(h.heap, envVars(e)) ELSE h.heap
      ref == IF first THEN Len(heap1) ELSE h.memo[c]
      result == [BASENAME |-> heap1[ref].BASENAME, TEST |-> heap1[ref].TEST,
                 ENV_LOADED |-> TRUE]
      heap2 == Append(heap1, result)
  IN [hook |-> [memo |-> [h.memo EXCEPT ![c] = ref], heap |-> heap2,
                returned |-> Append(h.returned, Len(heap2))],
      ret |-> Len(heap2)]

\* the environments: either namespace, each test string of the claims
EnvStrings == {Undefined, Txt("true"), Txt("True"), Txt("1"), Txt("")}
Envs ==
  { [DEV |-> d, VITE_TEST |-> t, VITE_TEST_DEV |-> td,
     VITE_BASENAME |-> BASENAME, VITE_BASENAME_DEV |-> BASENAME] :
      d \in BOOLEAN, t \in EnvStrings, td \in EnvStrings }
\* a production build with the test mode switched on or left unset
RunEnvs == {e \in Envs : ~e.DEV /\ e.VITE_TEST_DEV = Undefined
                         /\ e.VITE_TEST \in {Undefined, Txt("true")}}

(* --------------------------- state machine ---------------------------- *)

\* what localStorage may hold when the page loads: nothing, what an earlier
\* page load left there (login("tkNum", ...) writes the three entries), or
\* entries that other code on the page wrote, removed or damaged (a token
\* that no longer decodes, a user record that is not JSON)
InitStores ==
  { [k \in Keys |-> CASE k = KeyToken -> tk [] k = KeyTipo -> tp
                      [] k = KeyDatos -> dt [] OTHER -> ot] :
      tk \in {Null, Tok("tkNum"), Tok("tkBad")}, tp \in {Null, Str(7)},
      dt \in {Null, Json(DatosNum), Txt("{roto")}, ot \in {Null, Txt("x")} }

\* the step that `last` records; fields a step does not have keep a default
Call(op, i, tok, usu, lista, outcome, ret, rval) ==
  [op |-> op, inst |-> i, tok |-> tok, usu |-> usu, lista |-> lista,
   outcome |-> outcome, ret |-> ret, rval |-> rval]

InitWith(stores, insts, envs) ==
  /\ localStorage \in stores
  /\ state = [i \in insts |-> InitialState]
  /\ pending = [i \in insts |-> NoPending]
  /\ now = 0
  /\ env \in envs
  /\ TEST = envVars(env).TEST
  /\ hook = InitialHook
  /\ last = Call("init", 0, "", Undefined, << >>, "", FALSE, Undefined)

\* one mounted instance, any initial store
Init == InitWith(InitStores, {1}, RunEnvs)

Login(i, tok, usu) ==
  LET r == login(tok, usu, localStorage, pending[i]) IN
  /\ localStorage' = r.ls
  /\ pending' = [pending EXCEPT ![i] = r.up]
  /\ last' = Call("login", i, tok, usu, << >>, r.outcome, FALSE, Undefined)
  /\ UNCHANGED <<state, now, entorno>>

Logout(i) ==
  LET r == logout(localStorage, pending[i]) IN
  /\ localStorage' = r.ls
  /\ pending' = [pending EXCEPT ![i] = r.up]
  /\ last' = Call("logout", i, "", Undefined, << >>, "ok", FALSE, Undefined)
  /\ UNCHANGED <<state, now, entorno>>

GetLocalData(i) ==
  LET r == getLocalData(localStorage, pending[i]) IN
  /\ localStorage' = r.ls
  /\ pending' = [pending EXCEPT ![i] = r.up]
  /\ last' = Call("getLocalData", i, "", Undefined, << >>,
                  IF r.caught THEN "unparsable"
                  ELSE IF r.ret = Null THEN "failed" ELSE "ok", FALSE, r.ret)
  /\ UNCHANGED <<state, now, entorno>>

VerificarToken(i) ==
  /\ last' = Call("verificarToken", i, "", Undefined, << >>, "ok",
                  verificarToken(state[i], now), Undefined)
  /\ UNCHANGED <<localStorage, state, pending, now, entorno>>

CheckLogged(i, lista) ==
  LET r == checkLogged(lista, TEST, state[i], now, localStorage, pending[i]) IN
  /\ localStorage' = r.ls
  /\ pending' = [pending EXCEPT ![i] = r.up]
  /\ last' = Call("checkLogged", i, "", Undefined, lista, r.path, r.ret, Undefined)
  /\ UNCHANGED <<state, now, entorno>>

\* React renders the instance again: the queued updates become its state
Render(i) ==
  /\ pending[i] # NoPending
  /\ state' = [state EXCEPT ![i] = Commit(@, pending[i])]
  /\ pending' = [pending EXCEPT ![i] = NoPending]
  /\ last' = Call("render", i, "", Undefined, << >>, "", FALSE, Undefined)
  /\ UNCHANGED <<localStorage, now, entorno>>

\* a second passes
Tick ==
  /\ now < MaxTicks * MsPerSec
  /\ now' = now + MsPerSec
  /\ last' = Call("tick", 0, "", Undefined, << >>, "", FALSE, Undefined)
  /\ UNCHANGED <<localStorage, state, pending, entorno>>

Next ==
  \/ \E i \in Instances, tok \in Tokens, usu \in UserArgs : Login(i, tok, usu)
  \/ \E i \in Instances : Logout(i)
  \/ \E i \in Instances : GetLocalData(i)
  \/ \E i \in Instances : VerificarToken(i)
  \/ \E i \in Instances, lista \in Listas : CheckLogged(i, lista)
  \/ \E i \in Instances : Render(i)
  \/ Tick

Spec == Init /\ [][Next]_vars

\* two mounted instances over one store that starts empty, test mode off
InitShared ==
  InitWith({clear}, {1, 2}, {e \in RunEnvs : e.VITE_TEST = Undefined})
SpecShared == InitShared /\ [][Next]_vars

\* a consumer renders and calls useEnv()
UseEnv(c) ==
  LET r == useEnv(c, env, hook) IN
  /\ Len(hook.heap) + 2 <= MaxObjects
  /\ hook' = r.hook
  /\ last' = Call("useEnv", c, "", Undefined, << >>, "", r.hook.heap[r.ret].TEST,
                  Undefined)
  /\ UNCHANGED <<localStorage, state, pending, now, TEST, env>>

\* the config provider alone, over every environment
InitEnv == InitWith({clear}, {1}, Envs)
NextEnv == \E c \in Consumers : UseEnv(c)
SpecEnv == InitEnv /\ [][NextEnv]_vars

(* ------------------------------ claims -------------------------------- *)

\* the state the instance holds once React has committed the queued updates
Committed(i) == Commit(state[i], pending[i])
\* every slot absent and logged false
LoggedOutState ==
  [usuario |-> Null, persona |-> Null, tipoUsuarioId |-> Null,
   logged |-> JFalse, token |-> Null]
SessionKeys == {KeyToken, KeyTipo, KeyDatos}
\* the token's claims carry a data section with a tipo_usuario_id
CarriesTipo(tok) ==
  /\ ~jwtDecode(tok).thrown
  /\ IsObj(jwtDecode(tok).data)
  /\ "tipo_usuario_id" \in DOMAIN jwtDecode(tok).data.obj

C2_Logout ==
  last.op = "logout" =>
    /\ \A k \in Keys : localStorage[k] = Null
    /\ Committed(last.inst) = LoggedOutState

\* logout() has run on a logged-in instance
C2_Witness ==
  /\ last.op = "logout"
  /\ state[1].logged = JTrue /\ state[1].token = Tok("tkNum")
  /\ pending[1].logged = JFalse

\* C3: login(token, x) with x not a non-null record changes nothing: neither
\* the slots, nor the queued updates, nor any entry of the store.
C3_LoginRejected ==
  [][(last'.op = "login" /\ ~IsObj(last'.usu))
       => UNCHANGED <<localStorage, state, pending>>]_vars

\* login(token, "not-an-object") has run on a logged-in instance with a session stored
C3_Witness ==
  /\ last.op = "login" /\ last.usu = Txt("not-an-object") /\ last.tok = "tkStr"
  /\ state[1].logged = JTrue
  /\ localStorage[KeyToken] = Tok("tkNum")

\* C4: login with a record argument and a token that does not decode ends in
\* the state logout() produces from the same prior state: store empty,
\* logged false, usuario/persona/token/tipoUsuarioId absent.
C4_FailedLoginIsLogout ==
  [][(last'.op = "login" /\ IsObj(last'.usu) /\ jwtDecode(last'.tok).thrown)
       => /\ localStorage' = logout(localStorage, pending[last'.inst]).ls
          /\ pending'[last'.inst] = logout(localStorage, pending[last'.inst]).up
          /\ state' = state
          /\ \A k \in Keys : localStorage'[k] = Null
          /\ Commit(state'[last'.inst], pending'[last'.inst]) = LoggedOutState]_vars

\* login("tkBad", {nombre: "A"}) has run on a logged-in instance
C4_Witness ==
  /\ last.op = "login" /\ last.tok = "tkBad" /\ IsObj(last.usu)
  /\ state[1].logged = JTrue
  /\ pending[1].logged = JFalse

\* what C5 says verificarToken returns on instance i
C5_Expected(i) ==
  /\ state[i].logged # Null
  /\ state[i].token # Null
  /\ ~jwtDecode(state[i].token.tok).thrown
  /\ jwtDecode(state[i].token.tok).exp.num * 1000 >= now

\* C5: verificarToken() returns true iff logged is not unknown, a token is
\* held, the token decodes and its exp (seconds) is at or after now: false on
\* an instance with no login/load yet, false for exp one second in the past,
\* true for exp one second ahead and for exp equal to now.  It changes
\* neither the slots nor the store.
C5_VerificarToken ==
  [][last'.op = "verificarToken" =>
       /\ UNCHANGED <<localStorage, state, pending>>
       /\ last'.ret = C5_Expected(last'.inst)
       /\ state[last'.inst] = InitialState => ~last'.ret
       /\ (state[last'.inst].token = Tok("tkNum") /\ now = 2000) => ~last'.ret
       /\ (state[last'.inst].token = Tok("tkNum") /\ now \in {0, 1000}) => last'.ret]_vars

\* verificarToken() has returned true for a token whose exp equals now
C5_Witness ==
  /\ last.op = "verificarToken" /\ last.ret
  /\ state[1].token = Tok("tkNum") /\ now = 1000

\* the token instance i holds has not expired
C6_Unexpired(i) ==
  /\ state[i].token # Null
  /\ ~jwtDecode(state[i].token.tok).thrown
  /\ jwtDecode(state[i].token.tok).exp.num * 1000 >= now

\* C6: with TEST off, checkLogged(allowList) returns true only when logged is
\* true and the token is unexpired and, for a non-empty allowList, the stored
\* user-type id read as a base-10 integer is in allowList.
C6_CheckLogged ==
  (last.op = "checkLogged" /\ ~TEST /\ last.ret) =>
    /\ state[last.inst].logged = JTrue
    /\ C6_Unexpired(last.inst)
    /\ Len(last.lista) > 0 =>
         \E j \in 1..Len(last.lista) : localStorage[KeyTipo] = Str(last.lista[j])

\* checkLogged([7]) has returned true with TEST off
C6_Witness ==
  /\ last.op = "checkLogged" /\ ~TEST /\ last.ret /\ last.lista = <<7>>
  /\ localStorage[KeyTipo] = Str(7)

\* C7: with TEST on, checkLogged returns true for every allow-list in every
\* state and changes neither the slots nor the store.
C7_TestBypass ==
  [][(last'.op = "checkLogged" /\ TEST)
       => last'.ret /\ UNCHANGED <<localStorage, state, pending>>]_vars

\* checkLogged([1,2,3]) has returned true on a never-loaded instance with no
\* token stored
C7_Witness ==
  /\ TEST /\ last.op = "checkLogged" /\ last.ret /\ last.lista = <<1, 2, 3>>
  /\ state[1].logged = Null
  /\ localStorage[KeyToken] = Null

\* C8 (as claimed): after a successful login, getLocalData() on a fresh
\* instance over the same store returns the token and yields usuario, persona
\* and tipoUsuarioId equal to those the logging-in instance holds.
C8_RoundTrip ==
  (last.op = "login" /\ IsObj(last.usu) /\ CarriesTipo(last.tok)) =>
    LET r == getLocalData(localStorage, NoPending)
        fresh == Commit(InitialState, r.up)
    IN /\ r.ret = Committed(last.inst).token
       /\ fresh.usuario = Committed(last.inst).usuario
       /\ fresh.persona = Committed(last.inst).persona
       /\ fresh.tipoUsuarioId = Committed(last.inst).tipoUsuarioId

\* C9: getLocalData(): if one of the three entries is missing it sets
\* usuario, persona, tipoUsuarioId and token to absent and logged to false and
\* returns absent; if the three are present and the user record parses it
\* sets logged to true, loads token, tipoUsuarioId, usuario and persona from
\* the store and returns the stored token.
C9_GetLocalData ==
  [][last'.op = "getLocalData" =>
       LET after == Commit(state'[last'.inst], pending'[last'.inst])
           present == \A k \in SessionKeys : localStorage[k] # Null
       IN /\ ~present => (after = LoggedOutState /\ last'.rval = Null)
          /\ (present /\ ParseOk(localStorage[KeyDatos])) =>
               /\ after.logged = JTrue
               /\ after.token = localStorage[KeyToken]
               /\ after.tipoUsuarioId = localStorage[KeyTipo]
               /\ after.usuario = Without(JSONparse(localStorage[KeyDatos]), "persona")
               /\ after.persona = Prop(JSONparse(localStorage[KeyDatos]), "persona")
               /\ last'.rval = localStorage[KeyToken]]_vars

\* getLocalData() has loaded the session an earlier login("tkStr") stored
C9_Witness ==
  /\ last.op = "getLocalData" /\ last.rval = Tok("tkStr")
  /\ pending[1].logged = JTrue /\ pending[1].persona = Undefined

\* logged of an instance changes only when a render commits the queued value,
\* and never back to unknown
C10_Commit(i) ==
  /\ state[i].logged # Null => state'[i].logged # Null
  /\ state'[i].logged # state[i].logged =>
       (last'.op = "render" /\ state'[i].logged = pending[i].logged)
  /\ pending'[i].logged \in {NoUpd, JTrue, JFalse}

\* true is queued for logged only by a login or a getLocalData that succeeded
C10_ToTrue(i) ==
  (pending'[i] # pending[i] /\ pending'[i].logged = JTrue) =>
    /\ last'.inst = i /\ last'.op \in {"login", "getLocalData"}
    /\ last'.outcome = "ok"

\* the calls C10 names as setting logged to false
C10_NamedFalse(c) ==
  \/ c.op = "logout"
  \/ c.op = "login" /\ c.outcome = "failed"
  \/ c.op = "checkLogged" /\ ~c.ret

\* C10 (as claimed): logged starts unknown, never returns to unknown, becomes
\* true only by a successful login or getLocalData, and becomes false only by
\* logout, a failed login or a failed checkLogged.
C10_Original ==
  /\ \A i \in Instances : state[i].logged = Null
  /\ [][\A i \in Instances :
          /\ C10_Commit(i)
          /\ C10_ToTrue(i)
          /\ (pending'[i] # pending[i] /\ pending'[i].logged = JFalse) =>
               (last'.inst = i /\ C10_NamedFalse(last'))]_vars

\* C10 (amended): as claimed, and logged also becomes false by a
\* getLocalData() that does not find a complete, parsable session.
C10_LoggedMachine ==
  /\ \A i \in Instances : state[i].logged = Null
  /\ [][\A i \in Instances :
          /\ C10_Commit(i)
          /\ C10_ToTrue(i)
          /\ (pending'[i] # pending[i] /\ pending'[i].logged = JFalse) =>
               /\ last'.inst = i
               /\ \/ C10_NamedFalse(last')
                  \/ /\ last'.op = "getLocalData"
                     /\ last'.outcome \in {"failed", "unparsable"}]_vars

\* a render has committed logged = false on an instance that was logged in
C10_Witness ==
  /\ last.op = "render"
  /\ state[1].logged = JFalse
  /\ localStorage[KeyToken] = Tok("tkNum")

\* the test string of the namespace the development flag selects
C11_Selected == IF env.DEV THEN env.VITE_TEST_DEV ELSE env.VITE_TEST

\* C11 (as claimed): TEST is true iff the selected string, lowercased, is
\* "true"; "True", "1", the empty string and undefined each yield false.
C11_Original ==
  last.op = "useEnv" =>
    /\ last.ret <=> C11_Selected \in {Txt("true"), Txt("True")}
    /\ C11_Selected \in {Txt("True"), Txt("1"), Txt(""), Undefined} => ~last.ret

\* C11 (amended): TEST is true iff the selected string, lowercased, is
\* "true": "true" and "True" yield true; "1", the empty string and undefined
\* yield false.  The flag useUser reads is the same value.
C11_TestFlag ==
  /\ TEST <=> C11_Selected \in {Txt("true"), Txt("True")}
  /\ last.op = "useEnv" =>
       /\ last.ret <=> C11_Selected \in {Txt("true"), Txt("True")}
       /\ C11_Selected \in {Txt("1"), Txt(""), Undefined} => ~last.ret
       /\ C11_Selected = Txt("True") => last.ret

\* useEnv() has returned TEST = true in a development build whose
\* VITE_TEST_DEV is "True" while VITE_TEST is "1"
C11_Witness ==
  /\ last.op = "useEnv" /\ last.ret
  /\ env.DEV /\ env.VITE_TEST_DEV = Txt("True") /\ env.VITE_TEST = Txt("1")

\* C12 (as claimed): every call of useEnv(), by whichever consumer, returns
\* the same object.
C12_SameObject ==
  \A j, k \in 1..Len(hook.returned) : hook.returned[j] = hook.returned[k]

\* C13 (as claimed): in login with a record argument and a token that
\* decodes, the user data stored and loaded into usuario/persona is the
\* token's data section when it has one and the fallback argument when it has
\* none; either way login succeeds (logged = true, three entries stored).
C13_Fallback ==
  (last.op = "login" /\ IsObj(last.usu) /\ ~jwtDecode(last.tok).thrown) =>
    LET data == jwtDecode(last.tok).data
        used == IF data = Undefined THEN last.usu ELSE data
    IN /\ Committed(last.inst).logged = JTrue
       /\ \A k \in SessionKeys : localStorage[k] # Null
       /\ localStorage[KeyDatos] = Json(used)
       /\ Committed(last.inst).usuario = Without(used, "persona")
       /\ Committed(last.inst).persona = Prop(used, "persona")

\* C14: with TEST off, checkLogged logs out (store emptied, logged-out state
\* queued) and returns false exactly when the stored token entry is absent or
\* the expiry check fails; otherwise it changes nothing, and returns false
\* when a non-empty allow-list does not hold the stored user-type id.
C14_CheckLoggedLogout ==
  [][(last'.op = "checkLogged" /\ ~TEST) =>
       LET i == last'.inst
           fails == localStorage[KeyToken] = Null \/ ~C5_Expected(i)
           allowed == \E j \in 1..Len(last'.lista) :
                        localStorage[KeyTipo] = Str(last'.lista[j])
       IN /\ fails => /\ ~last'.ret
                      /\ last'.outcome = "logout"
                      /\ \A k \in Keys : localStorage'[k] = Null
                      /\ Commit(state'[i], pending'[i]) = LoggedOutState
          /\ ~fails => /\ UNCHANGED <<localStorage, state, pending>>
                       /\ last'.outcome = "checked"
                       /\ (Len(last'.lista) > 0 /\ ~allowed) => ~last'.ret]_vars

\* checkLogged([1,2,3]) has returned false to a logged-in user of type 7 and
\* has left the session in place
C14_Witness ==
  /\ last.op = "checkLogged" /\ ~TEST /\ ~last.ret /\ last.lista = <<1, 2, 3>>
  /\ state[1].logged = JTrue /\ pending[1] = NoPending
  /\ localStorage[KeyTipo] = Str(7) /\ localStorage[KeyToken] = Tok("tkNum")

\* C16: getLocalData() with a stored user record that does not parse empties
\* the whole store (every key), queues the logged-out state and returns
\* absent, whether or not the token and user-type entries are present.
C16_Unparsable ==
  [][(last'.op = "getLocalData" /\ localStorage[KeyDatos] # Null
        /\ ~ParseOk(localStorage[KeyDatos])) =>
       /\ \A k \in Keys : localStorage'[k] = Null
       /\ Commit(state'[last'.inst], pending'[last'.inst]) = LoggedOutState
       /\ last'.rval = Null
       /\ last'.outcome = "unparsable"]_vars

\* getLocalData() has met an unparsable record and left the store empty
C16_Witness ==
  /\ last.op = "getLocalData" /\ last.outcome = "unparsable"
  /\ pending[1].logged = JFalse
  /\ \A k \in Keys : localStorage[k] = Null

\* C18: in every committed state of an instance, logged = true iff a
\* token is held, logged = true implies usuario is present, and logged
\* unknown or false implies usuario, persona, token and tipoUsuarioId absent.
C18_Consistent ==
  \A i \in Instances :
    /\ state[i].logged = JTrue <=> Truthy(state[i].token)
    /\ state[i].logged = JTrue => state[i].usuario # Null
    /\ state[i].logged \in {Null, JFalse} =>
         /\ state[i].usuario = Null /\ state[i].persona = Null
         /\ state[i].token = Null /\ state[i].tipoUsuarioId = Null

\* a render has committed a session loaded by getLocalData or login
C18_Witness ==
  /\ last.op = "render"
  /\ state[1].logged = JTrue /\ state[1].token = Tok("tkStr")
  /\ IsObj(state[1].usuario)

\* C19: on an instance whose logged is still unknown, with TEST off,
\* checkLogged returns false and empties the store whatever the store holds,
\* and a getLocalData() that follows finds no session.
C19_FreshCheckLogged ==
  [][/\ (last'.op = "checkLogged" /\ ~TEST /\ state[last'.inst].logged = Null) =>
          /\ ~last'.ret
          /\ \A k \in Keys : localStorage'[k] = Null
          /\ getLocalData(localStorage', NoPending).ret = Null
     /\ (last.op = "checkLogged" /\ ~TEST /\ state[last.inst].logged = Null
           /\ last'.op = "getLocalData") =>
          (last'.rval = Null /\ last'.outcome = "failed")]_vars

\* checkLogged() has returned false on a never-loaded instance and the store
\* is empty
C19_Witness ==
  /\ last.op = "checkLogged" /\ ~TEST /\ ~last.ret /\ last.lista = << >>
  /\ state[1] = InitialState /\ now = 0
  /\ \A k \in Keys : localStorage[k] = Null

\* C20: when an instance whose committed state holds no token has just made
\* a successful login with an unexpired token and, before any render, calls
\* checkLogged with TEST off, checkLogged returns false and logs out: the
\* entries login wrote are gone and the committed state ends logged-out.
C20_StaleClosure ==
  [][(/\ last.op = "login" /\ last.outcome = "ok"
      /\ jwtDecode(last.tok).exp.num * 1000 >= now
      /\ state[last.inst].token = Null
      /\ ~TEST
      /\ last'.op = "checkLogged" /\ last'.inst = last.inst) =>
       /\ ~last'.ret
       /\ \A k \in Keys : localStorage'[k] = Null
       /\ Commit(state'[last'.inst], pending'[last'.inst]).logged = JFalse
       /\ Commit(state'[last'.inst], pending'[last'.inst]).token = Null]_vars

\* checkLogged([7]) has logged out an instance that holds no token at time 0
C20_Witness ==
  /\ last.op = "checkLogged" /\ ~TEST /\ ~last.ret /\ last.lista = <<7>>
  /\ last.outcome = "logout"
  /\ state[1].logged = JFalse /\ now = 0
  /\ pending[1].logged = JFalse

C17_AllOrNothing ==
  \/ \A k \in SessionKeys : localStorage[k] # Null
  \/ \A k \in SessionKeys : localStorage[k] = Null

\* the store holds the session instance 2 wrote while instance 1 still holds
\* its own
C17_Witness ==
  /\ \A k \in SessionKeys : localStorage[k] # Null
  /\ localStorage[KeyToken] = Tok("tkStr")
  /\ state[1].token = Tok("tkNum")
  /\ last.op = "login" /\ last.inst = 2

====
